---- MODULE Spec2Model ----
\* A model of the iavl v2 tree (src/db.go), its node pool (src/unnamed/part_000)
\* and the map-backed node store (src/db.go, mapDB).
\*
\* Memory is a heap `nodes` of Node records addressed by pointers 1..Len(nodes).
\* The pool's backing array np.nodes occupies the pointers base+1 .. base+len;
\* pointers at or below base are slots of an earlier backing array that is still
\* referenced by whoever obtained them before the array was reallocated by grow.
EXTENDS Integers, Sequences, FiniteSets, TLC

\* ---------------------------------------------------------------- bounds
MaxKey == 5
MaxVal == 1
MaxVersion == 2
MaxOps == 6
MaxStoreKey == 3
MaxStoreOps == 6
MaxFail == 1
MaxQueryOps == 5
\* The calls of a run that goes back to an older version and saves again.
MaxReloadOps == 7
\* The keys and values of the application state, and the calls of a run on it.
MaxAppKey == 2
MaxAppVal == 2
MaxAppOps == 4
PoolSize == 12
\* The pool of the runs in which it has to grow, and the calls of such a run.
SmallPool == 2
MaxPoolOps == 6

Keys == 1..MaxKey
StoreKeys == 1..MaxStoreKey
Vals == 1..MaxVal

\* ---------------------------------------------------------------- values
NilKey == 0
NilVal == 0
NilPtr == 0
NilHash == <<>>
emptyNodeKey == <<0, 0>>
NoFault == "none"

NewNodeKey(version, sequence) == <<version, sequence>>

NodeKeyVersion(nk) == nk[1]

\* Node{poolId: i}: the zero value of a Node in slot i.
ZeroNode(pid) ==
  [ poolId |-> pid, nodeKey |-> emptyNodeKey, key |-> NilKey, value |-> NilVal,
    subtreeHeight |-> 0, size |-> 0, hash |-> NilHash,
    leftNodeKey |-> emptyNodeKey, rightNodeKey |-> emptyNodeKey,
    leftNode |-> NilPtr, rightNode |-> NilPtr, dirty |-> FALSE ]

\* sizeBytes of a node: every node of the model has the same footprint.
sizeBytes(n) == 1

isLeaf(n) == n.subtreeHeight = 0

Max(a, b) == IF a > b THEN a ELSE b

Fault(S, what) == IF S.fault = NoFault THEN [S EXCEPT !.fault = what] ELSE S

\* ---------------------------------------------------------------- node pool
\* nodePool.grow: appends `amount` slots to np.nodes and queues their ids. The
\* append reallocates the backing array: the new array holds copies of the old
\* slots, and the old array stays alive for the pointers already handed out.
grow(S, amount) ==
  [S EXCEPT
     !.nodes = S.nodes \o [i \in 1..(S.len + amount) |->
                             IF i <= S.len THEN S.nodes[S.base + i] ELSE ZeroNode(i - 1)],
     !.base = Len(S.nodes),
     !.len = S.len + amount,
     !.free = S.free \o [i \in 1..amount |-> S.len + i - 1]]

\* nodePool.Get: the pointer to the slot at the head of the free list.
Get(S) ==
  LET take(T) ==
        [st |-> IF T.nodes[T.base + Head(T.free) + 1].hash # NilHash
                  THEN Fault([T EXCEPT !.free = Tail(T.free)], "pool")
                  ELSE [T EXCEPT !.free = Tail(T.free)],
         ptr |-> T.base + Head(T.free) + 1]
  IN IF Len(S.free) = 0 THEN take(grow(S, S.len)) ELSE take(S)

\* nodePool.resetNode
resetNode(n) ==
  [n EXCEPT !.leftNodeKey = emptyNodeKey, !.rightNodeKey = emptyNodeKey,
            !.rightNode = NilPtr, !.leftNode = NilPtr, !.nodeKey = emptyNodeKey,
            !.hash = NilHash, !.key = NilKey, !.value = NilVal,
            !.subtreeHeight = 0, !.size = 0, !.dirty = FALSE]

\* nodePool.Put
Put(S, p) ==
  [S EXCEPT !.nodes[p] = resetNode(S.nodes[p]),
            !.free = Append(S.free, S.nodes[p].poolId)]

\* ---------------------------------------------------------------- node store
\* mapDB.Set: the record kept under the node's key is a copy without the
\* transient fields.
dbSet(db, n) ==
  [k \in DOMAIN db \cup {n.nodeKey} |->
     IF k = n.nodeKey
       THEN [n EXCEPT !.dirty = FALSE, !.leftNode = NilPtr, !.rightNode = NilPtr]
       ELSE db[k]]

\* mapDB.Get
dbHas(db, nk) == nk \in DOMAIN db

dbGet(db, nk) == db[nk]

\* mapDB.Delete
dbDelete(db, nk) == [k \in DOMAIN db \ {nk} |-> db[k]]

\* ---------------------------------------------------------------- nodes
\* Node._hash: the hash of the canonical encoding (height, size, version, key,
\* then the value of a leaf or the two child hashes of an inner node).
hashNode(S, p, version) ==
  [S EXCEPT !.nodes[p].hash =
     IF isLeaf(S.nodes[p])
       THEN <<S.nodes[p].subtreeHeight, S.nodes[p].size, version, S.nodes[p].key,
              S.nodes[p].value>>
       ELSE <<S.nodes[p].subtreeHeight, S.nodes[p].size, version, S.nodes[p].key,
              S.nodes[S.nodes[p].leftNode].hash, S.nodes[S.nodes[p].rightNode].hash>>]

\* The pool resolving a node key: a slot from the pool filled with the stored
\* record.
fetch(S, nk) ==
  IF ~dbHas(S.db, nk)
    THEN [st |-> Fault(S, "notfound"), ptr |-> NilPtr]
    ELSE LET fill(g) ==
               [st |-> [g.st EXCEPT !.nodes[g.ptr] =
                          [dbGet(S.db, nk) EXCEPT !.poolId = g.st.nodes[g.ptr].poolId]],
                ptr |-> g.ptr]
         IN fill(Get(S))

\* Node.left
left(S, p) ==
  IF S.fault # NoFault THEN [st |-> S, ptr |-> NilPtr]
  ELSE IF S.nodes[p].leftNode # NilPtr THEN [st |-> S, ptr |-> S.nodes[p].leftNode]
  ELSE LET install(f) ==
             IF f.st.fault # NoFault THEN f
             ELSE [st |-> [f.st EXCEPT !.nodes[p].leftNode = f.ptr], ptr |-> f.ptr]
       IN install(fetch(S, S.nodes[p].leftNodeKey))

\* Node.right
right(S, p) ==
  IF S.fault # NoFault THEN [st |-> S, ptr |-> NilPtr]
  ELSE IF S.nodes[p].rightNode # NilPtr THEN [st |-> S, ptr |-> S.nodes[p].rightNode]
  ELSE LET install(f) ==
             IF f.st.fault # NoFault THEN f
             ELSE [st |-> [f.st EXCEPT !.nodes[p].rightNode = f.ptr], ptr |-> f.ptr]
       IN install(fetch(S, S.nodes[p].rightNodeKey))

\* Node.setLeft
setLeft(S, p, c) ==
  [S EXCEPT !.nodes[p].leftNode = c, !.nodes[p].leftNodeKey = S.nodes[c].nodeKey]

\* Node.setRight
setRight(S, p, c) ==
  [S EXCEPT !.nodes[p].rightNode = c, !.nodes[p].rightNodeKey = S.nodes[c].nodeKey]

\* Node.calcHeightAndSize
calcHeightAndSize(S, p) ==
  LET sized(T) ==
        IF T.fault # NoFault THEN T
        ELSE [T EXCEPT
                !.nodes[p].subtreeHeight =
                   Max(T.nodes[T.nodes[p].leftNode].subtreeHeight,
                       T.nodes[T.nodes[p].rightNode].subtreeHeight) + 1,
                !.nodes[p].size = T.nodes[T.nodes[p].leftNode].size
                                  + T.nodes[T.nodes[p].rightNode].size]
  IN sized(right(left(S, p).st, p).st)

\* ---------------------------------------------------------------- tree helpers
\* Tree.nextNodeKey
nextNodeKey(S) ==
  [st |-> [S EXCEPT !.sequence = S.sequence + 1],
   nk |-> NewNodeKey(S.version + 1, S.sequence + 1)]

\* Tree.mutateNode
mutateNode(S, p) ==
  IF S.nodes[p].hash = NilHash THEN S
  ELSE LET stamp(k) ==
             IF S.nodes[p].dirty
               THEN [k.st EXCEPT !.nodes[p].hash = NilHash, !.nodes[p].nodeKey = k.nk]
               ELSE [k.st EXCEPT !.nodes[p].hash = NilHash, !.nodes[p].nodeKey = k.nk,
                                 !.nodes[p].dirty = TRUE,
                                 !.workingBytes = S.workingBytes + sizeBytes(S.nodes[p]),
                                 !.workingSize = S.workingSize + 1]
       IN stamp(nextNodeKey(S))

\* Tree.addOrphan
addOrphan(S, p) ==
  IF S.nodes[p].hash = NilHash THEN S
  ELSE [S EXCEPT !.orphans = Append(S.orphans,
          [deleted |-> FALSE, new |-> p,
           prevHeight |-> S.nodes[p].subtreeHeight, prevKey |-> S.nodes[p].key])]

\* Tree.NewNode
NewNode(S, key, value, version) ==
  LET init(g) ==
        LET stamp(k) ==
              LET finish(T) ==
                    [st |-> [T EXCEPT !.nodes[g.ptr].value = NilVal,
                                      !.nodes[g.ptr].dirty = TRUE,
                                      !.workingBytes = T.workingBytes + sizeBytes(T.nodes[g.ptr]),
                                      !.workingSize = T.workingSize + 1],
                     ptr |-> g.ptr]
              IN finish(hashNode([k.st EXCEPT !.nodes[g.ptr].nodeKey = k.nk,
                                              !.nodes[g.ptr].key = key,
                                              !.nodes[g.ptr].value = value,
                                              !.nodes[g.ptr].subtreeHeight = 0,
                                              !.nodes[g.ptr].size = 1],
                                 g.ptr, version + 1))
        IN stamp(nextNodeKey(g.st))
  IN init(Get(S))

\* Tree.returnNode
returnNode(S, p) ==
  Put([S EXCEPT
         !.workingBytes = IF S.nodes[p].dirty THEN S.workingBytes - sizeBytes(S.nodes[p])
                          ELSE S.workingBytes,
         !.workingSize = IF S.nodes[p].dirty THEN S.workingSize - 1 ELSE S.workingSize,
         !.orphans = Append(S.orphans,
            [deleted |-> TRUE, new |-> NilPtr,
             prevHeight |-> S.nodes[p].subtreeHeight, prevKey |-> S.nodes[p].key])],
      p)

\* ---------------------------------------------------------------- balancing
\* The end of a rotation: the heights and sizes of the demoted node p and of
\* the new subtree root r.ptr are recomputed, in that order.
resize(r, p) ==
  IF r.st.fault # NoFault THEN r
  ELSE [st |-> calcHeightAndSize(calcHeightAndSize(r.st, p), r.ptr), ptr |-> r.ptr]

\* Tree.rotateRight: node and its left child get new identities; the left child
\* becomes the subtree root.
rotateRight(S, p) ==
  LET pivot(T) ==
        IF T.fault # NoFault THEN T
        ELSE right(mutateNode(addOrphan(T, T.nodes[p].leftNode), T.nodes[p].leftNode),
                   T.nodes[p].leftNode).st
      relink(T) ==
        IF T.fault # NoFault THEN [st |-> T, ptr |-> p]
        ELSE [st |-> setRight(setLeft(T, p, T.nodes[T.nodes[p].leftNode].rightNode),
                              T.nodes[p].leftNode, p),
              ptr |-> T.nodes[p].leftNode]
  IN IF S.fault # NoFault THEN [st |-> S, ptr |-> p]
     ELSE resize(relink(pivot(left(mutateNode(addOrphan(S, p), p), p).st)), p)

\* Tree.rotateLeft
rotateLeft(S, p) ==
  LET pivot(T) ==
        IF T.fault # NoFault THEN T
        ELSE left(mutateNode(addOrphan(T, T.nodes[p].rightNode), T.nodes[p].rightNode),
                  T.nodes[p].rightNode).st
      relink(T) ==
        IF T.fault # NoFault THEN [st |-> T, ptr |-> p]
        ELSE [st |-> setLeft(setRight(T, p, T.nodes[T.nodes[p].rightNode].leftNode),
                             T.nodes[p].rightNode, p),
              ptr |-> T.nodes[p].rightNode]
  IN IF S.fault # NoFault THEN [st |-> S, ptr |-> p]
     ELSE resize(relink(pivot(right(mutateNode(addOrphan(S, p), p), p).st)), p)

\* Node.calcBalance: height(left) - height(right), children resolved lazily.
calcBalance(S, p) ==
  LET out(T) ==
        [st |-> T,
         bf |-> IF T.fault # NoFault THEN 0
                ELSE T.nodes[T.nodes[p].leftNode].subtreeHeight
                     - T.nodes[T.nodes[p].rightNode].subtreeHeight]
  IN out(right(left(S, p).st, p).st)

\* Tree.balance, left-heavy: right rotation, after a left rotation of the left
\* child when that child leans right.
balanceLeftHeavy(S, p) ==
  LET relinked(nl) == IF nl.st.fault # NoFault THEN nl.st ELSE setLeft(nl.st, p, nl.ptr)
      straightened(lb) ==
        IF lb.st.fault # NoFault \/ lb.bf >= 0 THEN lb.st
        ELSE relinked(rotateLeft(lb.st, lb.st.nodes[p].leftNode))
  IN rotateRight(straightened(calcBalance(S, S.nodes[p].leftNode)), p)

\* Tree.balance, right-heavy: the mirror image.
balanceRightHeavy(S, p) ==
  LET relinked(nr) == IF nr.st.fault # NoFault THEN nr.st ELSE setRight(nr.st, p, nr.ptr)
      straightened(rb) ==
        IF rb.st.fault # NoFault \/ rb.bf <= 0 THEN rb.st
        ELSE relinked(rotateRight(rb.st, rb.st.nodes[p].rightNode))
  IN rotateLeft(straightened(calcBalance(S, S.nodes[p].rightNode)), p)

\* Tree.balance: single or double rotation when the balance factor leaves
\* [-1, 1].
balance(S, p) ==
  LET withBalance(b) ==
        IF b.st.fault # NoFault THEN [st |-> b.st, ptr |-> p]
        ELSE IF b.bf > 1 THEN balanceLeftHeavy(b.st, p)
        ELSE IF b.bf < -1 THEN balanceRightHeavy(b.st, p)
        ELSE [st |-> b.st, ptr |-> p]
  IN withBalance(calcBalance(S, p))

\* ---------------------------------------------------------------- set
\* Tree.recursiveSet at a leaf with a larger key: a new parent whose left child
\* is the new leaf and whose right child is the old one.
splitLeft(S, p, key, value) ==
  LET withParent(g) ==
        LET stamped(k) ==
              LET withLeaf(nn) ==
                    LET count(T) ==
                          [T EXCEPT !.workingBytes = T.workingBytes + sizeBytes(T.nodes[g.ptr]),
                                    !.workingSize = T.workingSize + 1]
                    IN [st |-> count(setRight(setLeft(nn.st, g.ptr, nn.ptr), g.ptr, p)),
                        newSelf |-> g.ptr, updated |-> FALSE]
              IN withLeaf(NewNode([k.st EXCEPT !.nodes[g.ptr].nodeKey = k.nk,
                                               !.nodes[g.ptr].key = S.nodes[p].key,
                                               !.nodes[g.ptr].subtreeHeight = 1,
                                               !.nodes[g.ptr].size = 2,
                                               !.nodes[g.ptr].dirty = TRUE],
                                  key, value, S.version))
        IN stamped(nextNodeKey(g.st))
  IN withParent(Get(S))

\* Tree.recursiveSet at a leaf with a smaller key: a new parent keyed by the
\* new key, the old leaf on the left and the new leaf on the right.
splitRight(S, p, key, value) ==
  LET withParent(g) ==
        LET stamped(k) ==
              LET withLeaf(nn) ==
                    LET count(T) ==
                          [T EXCEPT !.workingBytes = T.workingBytes + sizeBytes(T.nodes[g.ptr]),
                                    !.workingSize = T.workingSize + 1]
                    IN [st |-> count(setRight(nn.st, g.ptr, nn.ptr)),
                        newSelf |-> g.ptr, updated |-> FALSE]
              IN withLeaf(NewNode(setLeft([k.st EXCEPT !.nodes[g.ptr].nodeKey = k.nk,
                                                       !.nodes[g.ptr].key = key,
                                                       !.nodes[g.ptr].subtreeHeight = 1,
                                                       !.nodes[g.ptr].size = 2,
                                                       !.nodes[g.ptr].dirty = TRUE],
                                          g.ptr, p),
                                  key, value, S.version))
        IN stamped(nextNodeKey(g.st))
  IN withParent(Get(S))

\* updateLeaf that reports an insertion.
updateLeafSilent(S, p, value) ==
  LET rehash(T) ==
        [st |-> [hashNode([T EXCEPT !.nodes[p].value = value], p, T.version + 1)
                   EXCEPT !.nodes[p].value = NilVal],
         newSelf |-> p, updated |-> FALSE]
  IN rehash(mutateNode(S, p))

\* Tree.recursiveSet at a leaf with the same key: the leaf is re-stamped and
\* re-hashed with the new value.
updateLeaf(S, p, value) ==
  LET rehash(T) ==
        [st |-> [hashNode([T EXCEPT !.nodes[p].value = value], p, T.version + 1)
                   EXCEPT !.nodes[p].value = NilVal],
         newSelf |-> p, updated |-> TRUE]
  IN rehash(mutateNode(S, p))

\* attachSet without the rebalancing of an insertion.
attachSetUnbalanced(sub, p, goLeft) ==
  IF sub.st.fault # NoFault THEN [st |-> sub.st, newSelf |-> p, updated |-> FALSE]
  ELSE [st |-> calcHeightAndSize(
                 IF goLeft THEN setLeft(sub.st, p, sub.newSelf)
                 ELSE setRight(sub.st, p, sub.newSelf), p),
        newSelf |-> p, updated |-> sub.updated]

\* Tree.recursiveSet at an inner node, after the recursion into `sub`: the new
\* child is attached; an insertion recomputes height and size and rebalances.
attachSet(sub, p, goLeft) ==
  IF sub.st.fault # NoFault THEN [st |-> sub.st, newSelf |-> p, updated |-> FALSE]
  ELSE IF sub.updated
    THEN [st |-> IF goLeft THEN setLeft(sub.st, p, sub.newSelf)
                 ELSE setRight(sub.st, p, sub.newSelf),
          newSelf |-> p, updated |-> TRUE]
  ELSE LET out(b) == [st |-> b.st, newSelf |-> b.ptr, updated |-> FALSE]
       IN out(balance(calcHeightAndSize(
                        IF goLeft THEN setLeft(sub.st, p, sub.newSelf)
                        ELSE setRight(sub.st, p, sub.newSelf), p), p))

RECURSIVE recursiveSet(_, _, _, _)
\* Tree.recursiveSet: the new subtree root and whether an existing key was
\* updated.
recursiveSet(S, p, key, value) ==
  IF S.fault # NoFault THEN [st |-> S, newSelf |-> p, updated |-> FALSE]
  ELSE IF p = NilPtr THEN [st |-> Fault(S, "nil"), newSelf |-> p, updated |-> FALSE]
  ELSE IF isLeaf(S.nodes[p]) THEN
    IF key < S.nodes[p].key THEN splitLeft(S, p, key, value)
    ELSE IF key > S.nodes[p].key THEN splitRight(S, p, key, value)
    ELSE updateLeaf(S, p, value)
  ELSE
    LET into(c) == recursiveSet(c.st, c.ptr, key, value)
    IN attachSet(into(IF key < S.nodes[p].key
                        THEN left(mutateNode(addOrphan(S, p), p), p)
                        ELSE right(mutateNode(addOrphan(S, p), p), p)),
                 p, key < S.nodes[p].key)

\* set without the check of the value.
setUnchecked(S, key, value) ==
  IF S.root = NilPtr
    THEN LET asRoot(nn) ==
               [st |-> [nn.st EXCEPT !.root = nn.ptr], updated |-> FALSE, err |-> FALSE]
         IN asRoot(NewNode(S, key, value, S.version))
  ELSE LET asRoot(r) ==
             [st |-> [r.st EXCEPT !.root = r.newSelf], updated |-> r.updated,
              err |-> FALSE]
       IN asRoot(recursiveSet(S, S.root, key, value))

\* Tree.set
set(S, key, value) ==
  IF value = NilVal
    THEN [st |-> S, updated |-> FALSE, err |-> TRUE]
  ELSE IF S.root = NilPtr
    THEN LET asRoot(nn) ==
               [st |-> [nn.st EXCEPT !.root = nn.ptr], updated |-> FALSE, err |-> FALSE]
         IN asRoot(NewNode(S, key, value, S.version))
  ELSE LET asRoot(r) ==
             [st |-> [r.st EXCEPT !.root = r.newSelf], updated |-> r.updated,
              err |-> FALSE]
       IN asRoot(recursiveSet(S, S.root, key, value))

\* ---------------------------------------------------------------- remove
\* The result of recursiveRemove when nothing was removed below node p.
notRemoved(S, p) ==
  [st |-> S, newSelf |-> p, newKey |-> NilKey, value |-> NilVal, removed |-> FALSE]

\* Tree.recursiveRemove at a leaf holding the key: the leaf goes back to the
\* pool and its value field is returned.
removeLeaf(S, p) ==
  LET returned(T) ==
        [st |-> T, newSelf |-> NilPtr, newKey |-> NilKey,
         value |-> T.nodes[p].value, removed |-> TRUE]
  IN returned(returnNode(S, p))

\* afterLeft that re-stamps the node before it looks at what the recursion
\* found.
afterLeftEager(sub, p) ==
  IF sub.st.fault # NoFault THEN notRemoved(sub.st, p)
  ELSE IF ~sub.removed
    THEN [st |-> mutateNode(addOrphan(sub.st, p), p), newSelf |-> p,
          newKey |-> NilKey, value |-> sub.value, removed |-> FALSE]
  ELSE IF sub.newSelf = NilPtr
    THEN LET collapse(r) ==
               IF r.st.fault # NoFault THEN notRemoved(r.st, p)
               ELSE [st |-> returnNode(r.st, p), newSelf |-> r.ptr,
                     newKey |-> r.st.nodes[p].key, value |-> sub.value,
                     removed |-> TRUE]
         IN collapse(right(sub.st, p))
  ELSE LET out(b) ==
             IF b.st.fault # NoFault THEN notRemoved(b.st, p)
             ELSE [st |-> b.st, newSelf |-> b.ptr, newKey |-> sub.newKey,
                   value |-> sub.value, removed |-> TRUE]
       IN out(balance(calcHeightAndSize(
                        setLeft(mutateNode(addOrphan(sub.st, p), p), p, sub.newSelf),
                        p), p))

\* afterLeft that hands up no separator key when the node collapses into its
\* right child.
afterLeftKeyLost(sub, p) ==
  IF sub.st.fault # NoFault THEN notRemoved(sub.st, p)
  ELSE IF ~sub.removed
    THEN [st |-> sub.st, newSelf |-> p, newKey |-> NilKey, value |-> sub.value,
          removed |-> FALSE]
  ELSE IF sub.newSelf = NilPtr
    THEN LET collapse(r) ==
               IF r.st.fault # NoFault THEN notRemoved(r.st, p)
               ELSE [st |-> returnNode(r.st, p), newSelf |-> r.ptr,
                     newKey |-> NilKey, value |-> sub.value, removed |-> TRUE]
         IN collapse(right(sub.st, p))
  ELSE LET out(b) ==
             IF b.st.fault # NoFault THEN notRemoved(b.st, p)
             ELSE [st |-> b.st, newSelf |-> b.ptr, newKey |-> sub.newKey,
                   value |-> sub.value, removed |-> TRUE]
       IN out(balance(calcHeightAndSize(
                        setLeft(mutateNode(addOrphan(sub.st, p), p), p, sub.newSelf),
                        p), p))

\* Tree.recursiveRemove at an inner node whose left subtree `sub` was searched.
afterLeft(sub, p) ==
  IF sub.st.fault # NoFault THEN notRemoved(sub.st, p)
  ELSE IF ~sub.removed
    THEN [st |-> sub.st, newSelf |-> p, newKey |-> NilKey, value |-> sub.value,
          removed |-> FALSE]
  ELSE IF sub.newSelf = NilPtr
    THEN LET collapse(r) ==
               IF r.st.fault # NoFault THEN notRemoved(r.st, p)
               ELSE [st |-> returnNode(r.st, p), newSelf |-> r.ptr,
                     newKey |-> r.st.nodes[p].key, value |-> sub.value,
                     removed |-> TRUE]
         IN collapse(right(sub.st, p))
  ELSE LET out(b) ==
             IF b.st.fault # NoFault THEN notRemoved(b.st, p)
             ELSE [st |-> b.st, newSelf |-> b.ptr, newKey |-> sub.newKey,
                   value |-> sub.value, removed |-> TRUE]
       IN out(balance(calcHeightAndSize(
                        setLeft(mutateNode(addOrphan(sub.st, p), p), p, sub.newSelf),
                        p), p))

\* Node p with its key replaced by the key handed up from the right subtree.
rekey(S, p, newKey) ==
  IF newKey # NilKey THEN [S EXCEPT !.nodes[p].key = newKey] ELSE S

\* afterRight that attaches the new right child without recomputing the
\* node's height and size.
afterRightUnsized(sub, p) ==
  IF sub.st.fault # NoFault THEN notRemoved(sub.st, p)
  ELSE IF ~sub.removed
    THEN [st |-> sub.st, newSelf |-> p, newKey |-> NilKey, value |-> sub.value,
          removed |-> FALSE]
  ELSE IF sub.newSelf = NilPtr
    THEN LET collapse(l) ==
               IF l.st.fault # NoFault THEN notRemoved(l.st, p)
               ELSE [st |-> returnNode(l.st, p), newSelf |-> l.ptr,
                     newKey |-> NilKey, value |-> sub.value, removed |-> TRUE]
         IN collapse(left(sub.st, p))
  ELSE [st |-> rekey(setRight(mutateNode(addOrphan(sub.st, p), p), p, sub.newSelf),
                     p, sub.newKey),
        newSelf |-> p, newKey |-> NilKey, value |-> sub.value, removed |-> TRUE]

\* Tree.recursiveRemove at an inner node whose right subtree `sub` was searched.
afterRight(sub, p) ==
  IF sub.st.fault # NoFault THEN notRemoved(sub.st, p)
  ELSE IF ~sub.removed
    THEN [st |-> sub.st, newSelf |-> p, newKey |-> NilKey, value |-> sub.value,
          removed |-> FALSE]
  ELSE IF sub.newSelf = NilPtr
    THEN LET collapse(l) ==
               IF l.st.fault # NoFault THEN notRemoved(l.st, p)
               ELSE [st |-> returnNode(l.st, p), newSelf |-> l.ptr,
                     newKey |-> NilKey, value |-> sub.value, removed |-> TRUE]
         IN collapse(left(sub.st, p))
  ELSE LET out(b) ==
             IF b.st.fault # NoFault THEN notRemoved(b.st, p)
             ELSE [st |-> b.st, newSelf |-> b.ptr, newKey |-> NilKey,
                   value |-> sub.value, removed |-> TRUE]
       IN out(balance(calcHeightAndSize(
                        rekey(setRight(mutateNode(addOrphan(sub.st, p), p), p,
                                       sub.newSelf),
                              p, sub.newKey), p), p))

RECURSIVE recursiveRemove(_, _, _)
\* Tree.recursiveRemove: the node replacing `p` (NilPtr when `p` itself was
\* removed), the new leftmost key of the subtree when it changed, the removed
\* value, and whether a leaf was removed.
recursiveRemove(S, p, key) ==
  LET into(c) == recursiveRemove(c.st, c.ptr, key)
  IN IF S.fault # NoFault THEN notRemoved(S, p)
     ELSE IF p = NilPtr THEN notRemoved(Fault(S, "nil"), p)
     ELSE IF isLeaf(S.nodes[p]) THEN
       IF key = S.nodes[p].key THEN removeLeaf(S, p) ELSE notRemoved(S, p)
     ELSE IF key < S.nodes[p].key THEN afterLeft(into(left(S, p)), p)
     ELSE afterRight(into(right(S, p)), p)

\* Tree.Remove
Remove(S, key) ==
  IF S.root = NilPtr
    THEN [st |-> S, value |-> NilVal, removed |-> FALSE]
  ELSE LET result(r) ==
             IF ~r.removed
               THEN [st |-> r.st, value |-> NilVal, removed |-> FALSE]
               ELSE [st |-> [r.st EXCEPT !.root = r.newSelf], value |-> r.value,
                     removed |-> TRUE]
       IN result(recursiveRemove(S, S.root, key))

\* Tree.Size: the size field of the root.
Size(S) ==
  IF S.root = NilPtr THEN [st |-> Fault(S, "nil"), value |-> 0]
  ELSE [st |-> S, value |-> S.nodes[S.root].size]

\* Tree.Height: the subtreeHeight field of the root.
Height(S) ==
  IF S.root = NilPtr THEN [st |-> Fault(S, "nil"), value |-> 0]
  ELSE [st |-> S, value |-> S.nodes[S.root].subtreeHeight]

\* ---------------------------------------------------------------- save
\* Tree.deepHash, the end of the visit of an unhashed node: a leaf child is
\* detached, and put back in the pool when it is not of the tree's version.
detachLeftKept(S, p, childIsLeaf, childIsDirty) ==
  IF ~childIsLeaf THEN S
  ELSE IF childIsDirty THEN [S EXCEPT !.nodes[p].leftNode = NilPtr]
  ELSE Put(S, S.nodes[p].leftNode)

detachLeft(S, p, childIsLeaf, childIsDirty) ==
  IF ~childIsLeaf THEN S
  ELSE IF childIsDirty THEN [S EXCEPT !.nodes[p].leftNode = NilPtr]
  ELSE [Put(S, S.nodes[p].leftNode) EXCEPT !.nodes[p].leftNode = NilPtr]

detachRight(S, p, childIsLeaf, childIsDirty) ==
  IF ~childIsLeaf THEN S
  ELSE IF childIsDirty THEN [S EXCEPT !.nodes[p].rightNode = NilPtr]
  ELSE [Put(S, S.nodes[p].rightNode) EXCEPT !.nodes[p].rightNode = NilPtr]

\* Tree.deepHash, the start of the visit: a node stamped with the tree's
\* version joins the leaves or the branches of the batch.
collect(S, p) ==
  IF NodeKeyVersion(S.nodes[p].nodeKey) # S.version THEN S
  ELSE IF isLeaf(S.nodes[p]) THEN [S EXCEPT !.leaves = Append(S.leaves, p)]
  ELSE [S EXCEPT !.branches = Append(S.branches, p)]

RECURSIVE deepHash(_, _)
\* Tree.deepHash: hashes the unhashed part of the subtree bottom-up, collects
\* the nodes stamped with the tree's version, and detaches leaf children.
deepHash(S, p) ==
  LET into(c) == deepHash(c.st, c.ptr)
      finish(l, r) ==
        IF r.st.fault # NoFault
          THEN [st |-> r.st, isLeaf |-> FALSE, isDirty |-> FALSE]
          ELSE [st |-> detachRight(
                         detachLeft(hashNode(r.st, p, r.st.version),
                                    p, l.isLeaf, l.isDirty),
                         p, r.isLeaf, r.isDirty),
                isLeaf |-> FALSE,
                isDirty |-> NodeKeyVersion(S.nodes[p].nodeKey) = S.version]
      visitRight(l) == finish(l, into(right(l.st, p)))
  IN IF S.fault # NoFault THEN [st |-> S, isLeaf |-> FALSE, isDirty |-> FALSE]
     ELSE IF p = NilPtr
       THEN [st |-> Fault(S, "nil"), isLeaf |-> FALSE, isDirty |-> FALSE]
     ELSE IF S.nodes[p].hash # NilHash
       THEN [st |-> collect(S, p), isLeaf |-> isLeaf(S.nodes[p]),
             isDirty |-> NodeKeyVersion(S.nodes[p].nodeKey) = S.version]
     ELSE visitRight(into(left(collect(S, p), p)))

RECURSIVE BatchSet(_, _)
\* SqliteDb.BatchSet: puts every node of the batch in the store, in order.
BatchSet(db, batch) ==
  IF batch = <<>> THEN db ELSE BatchSet(dbSet(db, Head(batch)), Tail(batch))

\* SqliteDb.SaveRoot: the root record of a version is the root's node key.
SaveRoot(roots, version, n) ==
  [v \in DOMAIN roots \cup {version} |-> IF v = version THEN n.nodeKey ELSE roots[v]]

\* The store steps of SaveVersion that can fail.
FailPoints == {"leaves", "shard", "branches", "versions", "root"}

\* The node records a vector of node pointers refers to.
nodesOf(S, ptrs) == [i \in 1..Len(ptrs) |-> S.nodes[ptrs[i]]]

saveResult(S, h, v, e) == [st |-> S, hash |-> h, version |-> v, err |-> e]

\* Tree.SaveVersion from the write of the root record on.
saveRootStep(S, f) ==
  IF f = "root" THEN saveResult(S, NilHash, S.version, TRUE)
  ELSE saveResult([S EXCEPT !.roots = SaveRoot(S.roots, S.version, S.nodes[S.root])],
                  S.nodes[S.root].hash, S.version, FALSE)

\* Tree.SaveVersion, the checkpoint taken at version 1: the branches are
\* written to a new shard.
saveBranchesStep(S) ==
  IF S.version # 1 THEN S
  ELSE [S EXCEPT !.db = BatchSet(S.db, nodesOf(S, S.branches))]

\* Tree.SaveVersion after deepHash, with `f` the store step that fails.
saveSteps(S, f) ==
  IF S.fault # NoFault THEN saveResult(S, NilHash, 0, FALSE)
  ELSE IF f = "leaves" THEN saveResult(S, NilHash, S.version, TRUE)
  ELSE IF S.version = 1 /\ f = "shard"
    THEN saveResult([S EXCEPT !.db = BatchSet(S.db, nodesOf(S, S.leaves))],
                    NilHash, 0, FALSE)
  ELSE IF S.version = 1 /\ f = "branches"
    THEN saveResult([S EXCEPT !.db = BatchSet(S.db, nodesOf(S, S.leaves))],
                    NilHash, S.version, TRUE)
  ELSE IF S.version = 1 /\ f = "versions"
    THEN saveResult(saveBranchesStep(
                      [S EXCEPT !.db = BatchSet(S.db, nodesOf(S, S.leaves))]),
                    NilHash, 0, TRUE)
  ELSE LET clear(T) == [T EXCEPT !.leaves = <<>>, !.branches = <<>>, !.orphans = <<>>]
       IN saveRootStep(clear(saveBranchesStep(
                         [S EXCEPT !.db = BatchSet(S.db, nodesOf(S, S.leaves))])), f)

\* Tree.SaveVersion, with `f` the store step that fails ("none": no failure).
\* The result is what the call returns: (hash, version, err).
SaveVersion(S, f) ==
  LET hashed(d) == saveSteps(d.st, f)
  IN hashed(deepHash([S EXCEPT !.version = S.version + 1, !.sequence = 0], S.root))

\* Whether failure point `f` is a step that SaveVersion executes in state S.
FailReached(S, f) ==
  \/ f \in {"none", "leaves", "root"}
  \/ f \in {"shard", "branches", "versions"} /\ S.version + 1 = 1

\* ---------------------------------------------------------------- load
\* SqliteDb.LoadRoot: the root record of the version, then that single node.
LoadRoot(S, version) ==
  IF version \notin DOMAIN S.roots
    THEN [st |-> S, ptr |-> NilPtr, err |-> TRUE]
  ELSE IF ~dbHas(S.db, S.roots[version])
    THEN [st |-> S, ptr |-> NilPtr, err |-> TRUE]
  ELSE LET loaded(f) == [st |-> f.st, ptr |-> f.ptr, err |-> FALSE]
       IN loaded(fetch(S, S.roots[version]))

\* Tree.LoadVersion
LoadVersion(S, v) ==
  LET rooted(r) ==
        IF r.err THEN [st |-> [r.st EXCEPT !.root = r.ptr], err |-> TRUE]
        ELSE [st |-> [r.st EXCEPT !.root = r.ptr, !.lastCheckpoint = v], err |-> FALSE]
  IN rooted(LoadRoot([S EXCEPT !.version = v, !.root = NilPtr, !.orphans = <<>>,
                               !.workingBytes = 0, !.workingSize = 0], v))

\* newNodePool followed by NewTree, on the given store.
NewTree(db, roots, poolSize) ==
  [ nodes |-> [i \in 1..poolSize |-> ZeroNode(i - 1)],
    base |-> 0, len |-> poolSize,
    free |-> [i \in 1..poolSize |-> i - 1],
    version |-> 0, root |-> NilPtr, lastCheckpoint |-> 0, orphans |-> <<>>,
    workingBytes |-> 0, workingSize |-> 0,
    branches |-> <<>>, leaves |-> <<>>, sequence |-> 0,
    db |-> db, roots |-> roots, fault |-> NoFault ]

\* ---------------------------------------------------------------- views
\* The record of the left / right child of node record n: the in-memory child
\* when the pointer is set, else the stored record of the child's node key.
Missing == [ZeroNode(0) EXCEPT !.subtreeHeight = -1]

leftRec(S, n) ==
  IF n.leftNode # NilPtr THEN S.nodes[n.leftNode]
  ELSE IF dbHas(S.db, n.leftNodeKey) THEN dbGet(S.db, n.leftNodeKey)
  ELSE Missing

rightRec(S, n) ==
  IF n.rightNode # NilPtr THEN S.nodes[n.rightNode]
  ELSE IF dbHas(S.db, n.rightNodeKey) THEN dbGet(S.db, n.rightNodeKey)
  ELSE Missing

rootRec(S) == IF S.root = NilPtr THEN Missing ELSE S.nodes[S.root]

RECURSIVE leafKeysOf(_, _)
\* The keys of the leaves below node record n, left to right.
leafKeysOf(S, n) ==
  IF n = Missing THEN <<>>
  ELSE IF isLeaf(n) THEN <<n.key>>
  ELSE leafKeysOf(S, leftRec(S, n)) \o leafKeysOf(S, rightRec(S, n))

LeafKeys(S) == leafKeysOf(S, rootRec(S))

Range(q) == {q[i] : i \in DOMAIN q}

RECURSIVE nodeKeysOf(_, _)
\* The node keys of the nodes at and below node record n.
nodeKeysOf(S, n) ==
  IF n = Missing THEN {}
  ELSE IF isLeaf(n) THEN {n.nodeKey}
  ELSE {n.nodeKey} \cup nodeKeysOf(S, leftRec(S, n)) \cup nodeKeysOf(S, rightRec(S, n))

NodeKeys(S) == nodeKeysOf(S, rootRec(S))

\* ---------------------------------------------------------------- app state
\* A merkle.Tree of the application is its key-to-value mapping.
AppKeys == 1..MaxAppKey

AppVals == 1..MaxAppVal

NoAppTree == [k \in AppKeys |-> NilVal]

\* merkle.Tree.Copy: a tree of its own with the same content.
Copy(t) == [k \in AppKeys |-> t[k]]

\* merkle.Tree.Hash: the root hash, one per content.
Hash(t) == <<"root", t>>

\* merkle.Tree.Save: persists the tree and returns its root hash.
Save(t) == Hash(t)

\* NewState
NewState(t, persistent) ==
  [committed |-> t, deliverTx |-> Copy(t), checkTx |-> Copy(t),
   persistent |-> persistent]

\* State.Committed, State.Append, State.Check
StateCommitted(s) == s.committed

StateAppend(s) == s.deliverTx

StateCheck(s) == s.checkTx

\* State.Commit: the state after the call and the hash it returns.
CommitSwapped(s, hash) ==
  [st |-> [s EXCEPT !.committed = s.deliverTx,
                    !.deliverTx = Copy(s.deliverTx),
                    !.checkTx = Copy(s.deliverTx)],
   hash |-> hash]

Commit(s) ==
  CommitSwapped(s, IF s.persistent THEN Save(s.committed) ELSE Hash(s.committed))

\* ---------------------------------------------------------------- state
VARIABLES tree, kv, saved, last, nops, nfail, app

vars == <<tree, kv, saved, last, nops, nfail, app>>

NoKv == [k \in Keys |-> NilVal]

NoSnap == [ok |-> FALSE, hash |-> NilHash, size |-> 0, height |-> 0, keys |-> <<>>,
           rootKey |-> emptyNodeKey, map |-> NoKv, ids |-> {}]

Result(op) ==
  [op |-> op, key |-> NilKey, val |-> NilVal, err |-> FALSE, panic |-> FALSE,
   updated |-> FALSE, removed |-> FALSE, ret |-> NilVal, hash |-> NilHash,
   version |-> 0, fail |-> "none", had |-> FALSE, stored |-> NilVal,
   leavesBefore |-> 0, rootBefore |-> NilPtr]

Init ==
  /\ tree = NewTree(<<>>, <<>>, PoolSize)
  /\ kv = NoKv
  /\ saved = [v \in 1..(MaxVersion + 1) |-> NoSnap]
  /\ last = Result("init")
  /\ nops = 0
  /\ nfail = 0
  /\ app = NewState(NoAppTree, FALSE)

Live(budget) == tree.fault = NoFault /\ nops < budget

Panicked(r, call) ==
  /\ tree' = [tree EXCEPT !.fault = r.st.fault]
  /\ last' = [call EXCEPT !.panic = TRUE]
  /\ UNCHANGED <<kv, saved>>

\* Tree.Set(k, v) for some key of K and value of V; NilVal is the nil value.
SetOn(K, V, budget) ==
  \E k \in K, v \in V :
    /\ Live(budget)
    /\ \E r \in {set(tree, k, v)}, before \in {LeafKeys(tree)} :
          IF r.st.fault # NoFault
            THEN Panicked(r, [Result("set") EXCEPT !.key = k, !.val = v])
          ELSE /\ tree' = r.st
               /\ kv' = IF r.err THEN kv ELSE [kv EXCEPT ![k] = v]
               /\ last' = [Result("set") EXCEPT !.key = k, !.val = v, !.err = r.err,
                             !.updated = r.updated, !.had = k \in Range(before),
                             !.stored = kv[k], !.leavesBefore = Len(before),
                             !.rootBefore = tree.root]
               /\ UNCHANGED saved
    /\ nops' = nops + 1
    /\ UNCHANGED app
    /\ UNCHANGED nfail

\* Tree.Remove(k) for some key of K.
RemoveOn(K, budget) ==
  \E k \in K :
    /\ Live(budget)
    /\ \E r \in {Remove(tree, k)}, before \in {LeafKeys(tree)} :
          IF r.st.fault # NoFault THEN Panicked(r, [Result("remove") EXCEPT !.key = k])
          ELSE /\ tree' = r.st
               /\ kv' = IF r.removed THEN [kv EXCEPT ![k] = NilVal] ELSE kv
               /\ last' = [Result("remove") EXCEPT !.key = k, !.removed = r.removed,
                             !.ret = r.value, !.had = k \in Range(before),
                             !.stored = kv[k], !.leavesBefore = Len(before),
                             !.rootBefore = tree.root]
               /\ UNCHANGED saved
    /\ nops' = nops + 1
    /\ UNCHANGED app
    /\ UNCHANGED nfail

Snapshot(S) ==
  [ok |-> TRUE, hash |-> S.nodes[S.root].hash, size |-> S.nodes[S.root].size,
   height |-> S.nodes[S.root].subtreeHeight, keys |-> LeafKeys(S),
   rootKey |-> S.nodes[S.root].nodeKey, map |-> kv, ids |-> NodeKeys(S)]

\* Tree.SaveVersion() with the store failing at some step of F ("none": every
\* store step succeeds).
SaveOn(F, budget) ==
  \E f \in F :
    /\ Live(budget)
    /\ tree.version < MaxVersion
    /\ FailReached(tree, f)
    /\ f # "none" => nfail < MaxFail
    /\ \E r \in {SaveVersion(tree, f)} :
          IF r.st.fault # NoFault
            THEN Panicked(r, [Result("save") EXCEPT !.fail = f]) /\ UNCHANGED nfail
          ELSE /\ tree' = r.st
               /\ last' = [Result("save") EXCEPT !.err = r.err, !.hash = r.hash,
                             !.version = r.version, !.fail = f]
               /\ saved' = IF f = "none"
                             THEN [saved EXCEPT ![r.st.version] = Snapshot(r.st)]
                             ELSE saved
               /\ nfail' = IF f = "none" THEN nfail ELSE nfail + 1
               /\ UNCHANGED kv
    /\ nops' = nops + 1
    /\ UNCHANGED app

\* ---- the tree with its store: every operation, store failures included
SetCall == SetOn(StoreKeys, Vals \cup {NilVal}, MaxStoreOps)

RemoveCall == RemoveOn(StoreKeys, MaxStoreOps)

SaveVersionCall == SaveOn(FailPoints \cup {"none"}, MaxStoreOps)

\* Tree.LoadVersion(version)
LoadOn(budget) ==
  \E v \in 1..MaxVersion :
    /\ Live(budget)
    /\ \E r \in {LoadVersion(tree, v)} :
          IF r.st.fault # NoFault THEN Panicked(r, [Result("load") EXCEPT !.version = v])
          ELSE /\ tree' = r.st
               /\ last' = [Result("load") EXCEPT !.err = r.err, !.version = v]
               /\ UNCHANGED <<kv, saved>>
    /\ nops' = nops + 1
    /\ UNCHANGED app
    /\ UNCHANGED nfail

LoadVersionCall == LoadOn(MaxStoreOps)

\* A new process: a fresh pool and tree on the same store.
Reopen ==
  /\ Live(MaxStoreOps)
  /\ tree.roots # <<>>
  /\ tree' = NewTree(tree.db, tree.roots, PoolSize)
  /\ last' = Result("reopen")
  /\ nops' = nops + 1
  /\ UNCHANGED app
  /\ UNCHANGED <<kv, saved, nfail>>

Next == SetCall \/ RemoveCall \/ SaveVersionCall \/ LoadVersionCall \/ Reopen

Spec == Init /\ [][Next]_vars

\* ---- the tree in memory: set, remove and successful saves on a larger key set
TreeSet == SetOn(Keys, Vals, MaxOps)

TreeRemove == RemoveOn(Keys, MaxOps)

TreeSave == SaveOn({"none"}, MaxOps)

TreeNext == TreeSet \/ TreeRemove \/ TreeSave

SpecTree == Init /\ [][TreeNext]_vars

\* ---- the tree on a pool that has to grow: set, remove and successful saves
InitPool ==
  /\ tree = NewTree(<<>>, <<>>, SmallPool)
  /\ kv = NoKv
  /\ saved = [v \in 1..(MaxVersion + 1) |-> NoSnap]
  /\ last = Result("init")
  /\ nops = 0
  /\ nfail = 0
  /\ app = NewState(NoAppTree, FALSE)

PoolSet == SetOn(StoreKeys, Vals, MaxPoolOps)

PoolRemove == RemoveOn(StoreKeys, MaxPoolOps)

PoolSave == SaveOn({"none"}, MaxPoolOps)

PoolNext == PoolSet \/ PoolRemove \/ PoolSave

SpecPool == InitPool /\ [][PoolNext]_vars

\* ---- going back to an older version: set, successful saves, load_version
ReloadSet == SetOn(StoreKeys, Vals, MaxReloadOps)

ReloadSave == SaveOn({"none"}, MaxReloadOps)

ReloadLoad == LoadOn(MaxReloadOps)

ReloadNext == ReloadSet \/ ReloadSave \/ ReloadLoad

SpecReload == Init /\ [][ReloadNext]_vars

\* ---- the application state: updates of Append() and Check(), Commit
InitState ==
  /\ tree = NewTree(<<>>, <<>>, PoolSize)
  /\ kv = NoKv
  /\ saved = [v \in 1..(MaxVersion + 1) |-> NoSnap]
  /\ last = Result("init")
  /\ nops = 0
  /\ nfail = 0
  /\ \E persistent \in BOOLEAN : app = NewState(NoAppTree, persistent)

\* Append().Set(k, v)
AppendSet ==
  \E k \in AppKeys, v \in AppVals :
    /\ nops < MaxAppOps
    /\ app' = [app EXCEPT !.deliverTx[k] = v]
    /\ last' = [Result("append") EXCEPT !.key = k, !.val = v]
    /\ nops' = nops + 1
    /\ UNCHANGED <<tree, kv, saved, nfail>>

\* Check().Set(k, v)
CheckSet ==
  \E k \in AppKeys, v \in AppVals :
    /\ nops < MaxAppOps
    /\ app' = [app EXCEPT !.checkTx[k] = v]
    /\ last' = [Result("check") EXCEPT !.key = k, !.val = v]
    /\ nops' = nops + 1
    /\ UNCHANGED <<tree, kv, saved, nfail>>

\* State.Commit()
CommitCall ==
  /\ nops < MaxAppOps
  /\ \E r \in {Commit(app)} :
        /\ app' = r.st
        /\ last' = [Result("commit") EXCEPT !.hash = r.hash]
  /\ nops' = nops + 1
  /\ UNCHANGED <<tree, kv, saved, nfail>>

StateNext == AppendSet \/ CheckSet \/ CommitCall

SpecState == InitState /\ [][StateNext]_vars

\* ---- the tree with its queries: set, remove, successful saves, size, height
QuerySet == SetOn(StoreKeys, Vals, MaxQueryOps)

QueryRemove == RemoveOn(StoreKeys, MaxQueryOps)

QuerySave == SaveOn({"none"}, MaxQueryOps)

\* Tree.Size()
SizeCall ==
  /\ Live(MaxQueryOps)
  /\ \E r \in {Size(tree)} :
        IF r.st.fault # NoFault THEN Panicked(r, Result("size"))
        ELSE /\ tree' = r.st
             /\ last' = [Result("size") EXCEPT !.ret = r.value]
             /\ UNCHANGED <<kv, saved>>
  /\ nops' = nops + 1
  /\ UNCHANGED app
  /\ UNCHANGED nfail

\* Tree.Height()
HeightCall ==
  /\ Live(MaxQueryOps)
  /\ \E r \in {Height(tree)} :
        IF r.st.fault # NoFault THEN Panicked(r, Result("height"))
        ELSE /\ tree' = r.st
             /\ last' = [Result("height") EXCEPT !.ret = r.value]
             /\ UNCHANGED <<kv, saved>>
  /\ nops' = nops + 1
  /\ UNCHANGED app
  /\ UNCHANGED nfail

QueryNext == QuerySet \/ QueryRemove \/ QuerySave \/ SizeCall \/ HeightCall

SpecQuery == Init /\ [][QueryNext]_vars

\* ---------------------------------------------------------------- tree shape
RECURSIVE nodesBelow(_, _)
\* The node records of the subtree of node record n.
nodesBelow(S, n) ==
  IF n = Missing THEN {}
  ELSE IF isLeaf(n) THEN {n}
  ELSE {n} \cup nodesBelow(S, leftRec(S, n)) \cup nodesBelow(S, rightRec(S, n))

\* The node records reachable from the root.
TreeNodes(S) == nodesBelow(S, rootRec(S))

RECURSIVE realHeight(_, _)
\* The depth of the subtree of node record n, counted on the structure.
realHeight(S, n) ==
  IF n = Missing \/ isLeaf(n) THEN 0
  ELSE 1 + Max(realHeight(S, leftRec(S, n)), realHeight(S, rightRec(S, n)))

\* The keys currently stored, by the history of calls.
StoredKeys == {k \in Keys : kv[k] # NilVal}

\* C1: every inner node reachable from the root has a balance factor
\* height(left) - height(right) of -1, 0 or 1, after any sequence of set,
\* remove and save_version calls.
C1_AvlBalanced ==
  \A n \in TreeNodes(tree) :
    ~isLeaf(n) =>
      realHeight(tree, leftRec(tree, n)) - realHeight(tree, rightRec(tree, n))
        \in {-1, 0, 1}

\* A remove out of five keys that rotated at the root: the root changed although
\* neither child of the root was the removed leaf.
C1_RemoveRotated ==
  /\ last.op = "remove" /\ last.removed /\ last.leavesBefore = 5
  /\ last.rootBefore # tree.root
  /\ Len(LeafKeys(tree)) = 4

\* C2: for every inner node N the keys of the left subtree are below N.key, the
\* keys of the right subtree are at or above N.key, and N.key is the smallest
\* leaf key of the right subtree.
C2_SearchOrder ==
  \A n \in TreeNodes(tree) :
    ~isLeaf(n) =>
      /\ \A k \in Range(leafKeysOf(tree, leftRec(tree, n))) : k < n.key
      /\ \A k \in Range(leafKeysOf(tree, rightRec(tree, n))) : k >= n.key
      /\ leafKeysOf(tree, rightRec(tree, n)) # <<>>
      /\ n.key = Head(leafKeysOf(tree, rightRec(tree, n)))

\* The remove of key 3 out of 1..4: its parent collapsed into leaf 4 and the
\* separator of the root, two levels above the leaf, became 4.
C2_KeyPropagated ==
  /\ last.op = "remove" /\ last.removed /\ last.key = 3
  /\ last.leavesBefore = 4
  /\ LeafKeys(tree) = <<1, 2, 4>>
  /\ rootRec(tree).key = 4

\* C3: a leaf has height 0 and size 1; an inner node has the sum of its
\* children's sizes and one more than the larger of their heights; the root's
\* size is the number of keys stored and its height the real depth of the tree.
C3_HeightAndSize ==
  /\ \A n \in TreeNodes(tree) :
       IF isLeaf(n) THEN n.size = 1
       ELSE /\ n.size = leftRec(tree, n).size + rightRec(tree, n).size
            /\ n.subtreeHeight = 1 + Max(leftRec(tree, n).subtreeHeight,
                                         rightRec(tree, n).subtreeHeight)
  /\ tree.root # NilPtr =>
       /\ rootRec(tree).size = Cardinality(StoredKeys)
       /\ rootRec(tree).subtreeHeight = realHeight(tree, rootRec(tree))

\* A set that updated a key two levels below the root.
C3_UpdatedDeep ==
  /\ last.op = "set" /\ last.updated
  /\ rootRec(tree).subtreeHeight >= 2

\* ---------------------------------------------------------------- set and remove
\* C4: a set of a non-nil value returns updated = TRUE exactly when the key was
\* in the tree before the call; the number of leaves grows by one for a new key
\* and stays the same for an update.
C4_SetReportsUpdate ==
  (last.op = "set" /\ ~last.panic /\ ~last.err) =>
    /\ last.updated = last.had
    /\ Len(LeafKeys(tree)) = last.leavesBefore + (IF last.had THEN 0 ELSE 1)

\* A set that updated a key of a tree of several keys.
C4_Updated ==
  /\ last.op = "set" /\ last.updated /\ last.had
  /\ Len(LeafKeys(tree)) >= 2

\* C5: a remove of a key that is in the tree returns removed = TRUE together
\* with the value most recently stored for the key.
C5_RemoveReturnsStored ==
  (last.op = "remove" /\ last.removed) => last.ret = last.stored

\* C6: a set of the nil value returns an error and leaves the tree as it was:
\* root, nodes, sequence counter, orphans, working bytes and working size.
C6_NilSetRejected ==
  [][(last'.op = "set" /\ last'.val = NilVal /\ nops' = nops + 1) =>
       (last'.err /\ ~last'.updated /\ tree' = tree /\ kv' = kv)]_vars

\* A rejected set on a tree that holds re-stamped nodes, orphans and a used
\* sequence counter.
C6_Rejected ==
  /\ last.op = "set" /\ last.err /\ last.val = NilVal
  /\ tree.root # NilPtr /\ tree.workingSize > 0 /\ tree.sequence > 0
  /\ tree.orphans # <<>>

\* Whether the node at pointer p is held by someone: a slot of an earlier
\* backing array, or a slot of the pool that is not on the free list.
InUse(S, p) == p <= S.base \/ (p - S.base - 1) \notin Range(S.free)

\* A node record without its in-memory child pointers.
Detached(n) == [n EXCEPT !.leftNode = NilPtr, !.rightNode = NilPtr]

\* C7: a remove of a key that is not in the tree returns removed = FALSE and
\* leaves the tree as it was: no node is orphaned, re-keyed, marked dirty or put
\* back in the pool, and the sequence counter and working size are unchanged.
\* Children read from the store on the way down stay attached.
C7_AbsentRemoveFrame ==
  [][(last'.op = "remove" /\ nops' = nops + 1 /\ ~last'.had /\ ~last'.panic) =>
       /\ ~last'.removed /\ last'.ret = NilVal
       /\ tree'.root = tree.root
       /\ tree'.orphans = tree.orphans
       /\ tree'.sequence = tree.sequence
       /\ tree'.workingSize = tree.workingSize
       /\ tree'.workingBytes = tree.workingBytes
       /\ tree'.db = tree.db
       /\ \A p \in 1..Len(tree.nodes) :
            InUse(tree, p) => Detached(tree'.nodes[p]) = Detached(tree.nodes[p])
       /\ \A i \in Range(tree'.free) : i \in Range(tree.free) \/ i >= tree.len
       /\ LeafKeys(tree') = LeafKeys(tree)]_vars

\* A remove of an absent key from a saved tree of several keys.
C7_AbsentRemoved ==
  /\ last.op = "remove" /\ ~last.removed /\ ~last.had /\ ~last.panic
  /\ tree.root # NilPtr /\ rootRec(tree).size >= 2
  /\ tree.version >= 1

\* ---------------------------------------------------------------- versions
RECURSIVE Retrievable(_, _)
\* Whether the node of key nk and every node below it can be read from the
\* store.
Retrievable(db, nk) ==
  /\ dbHas(db, nk)
  /\ \/ isLeaf(dbGet(db, nk))
     \/ /\ Retrievable(db, dbGet(db, nk).leftNodeKey)
        /\ Retrievable(db, dbGet(db, nk).rightNodeKey)

\* C8: once save_version has committed version v, a load_version(v) gives a
\* tree with the root hash, size, height and keys it had when v was saved, and
\* every node below that root can be read from the store by its node key. The
\* store has not failed so far.
C8_LoadReconstructs ==
  (last.op = "load" /\ nfail = 0 /\ saved[last.version].ok) =>
    /\ ~last.err /\ ~last.panic
    /\ tree.root # NilPtr
    /\ rootRec(tree).hash = saved[last.version].hash
    /\ rootRec(tree).size = saved[last.version].size
    /\ rootRec(tree).subtreeHeight = saved[last.version].height
    /\ LeafKeys(tree) = saved[last.version].keys
    /\ Retrievable(tree.db, saved[last.version].rootKey)

RECURSIVE DirtyStored(_, _, _)
\* Whether the nodes stamped with version v in the subtree of node key nk are in
\* the store. A node of another version was not dirty in version v.
DirtyStored(db, nk, v) ==
  \/ NodeKeyVersion(nk) # v
  \/ /\ dbHas(db, nk)
     /\ \/ isLeaf(dbGet(db, nk))
        \/ /\ DirtyStored(db, dbGet(db, nk).leftNodeKey, v)
           /\ DirtyStored(db, dbGet(db, nk).rightNodeKey, v)

\* C9: for every version, the first one or a later one, whose root record is
\* written, the dirty leaves and branches of that version are in the store:
\* save_version writes them before the root record. The store has not failed
\* so far.
C9_NodesBeforeRoot ==
  nfail = 0 =>
    \A v \in DOMAIN tree.roots : DirtyStored(tree.db, tree.roots[v], v)

\* C10: a save_version in which a store operation fails leaves the tree at the
\* version it had: the version is not advanced, the root and the keys are the
\* same, every node that was dirty is still dirty, and the leaves and branches
\* vectors are empty.
C10_FailedSaveIntact ==
  [][(last'.op = "save" /\ last'.err /\ nops' = nops + 1) =>
       /\ tree'.version = tree.version
       /\ tree'.root = tree.root
       /\ tree'.leaves = <<>> /\ tree'.branches = <<>>
       /\ LeafKeys(tree') = LeafKeys(tree)
       /\ \A p \in 1..Len(tree.nodes) :
            InUse(tree, p) => tree'.nodes[p].dirty = tree.nodes[p].dirty]_vars

\* C11: a save_version in which a store step failed (the write of the leaves,
\* the switch of shard, the write of the branches, the mapping of versions, the
\* write of the root record) returns an error.
C11_FailureSurfaced ==
  (last.op = "save" /\ last.fail # "none" /\ ~last.panic) => last.err

\* C12: no call panics: every set of a non-nil value, remove, save_version,
\* size and height returns, also on a tree that is empty or has just lost its
\* last key.
C12_NoPanic == ~last.panic /\ tree.fault = NoFault

\* The highest version committed so far, 0 when there is none.
Committed ==
  IF \E v \in DOMAIN saved : saved[v].ok
    THEN CHOOSE v \in DOMAIN saved :
           saved[v].ok /\ \A w \in DOMAIN saved : saved[w].ok => w <= v
    ELSE 0

\* C13: a save_version whose store steps all succeed advances the committed
\* version by exactly one and returns that version with the hash of the
\* current root, so the versions returned by successive saves increase.
C13_VersionAdvancesByOne ==
  [][(last'.op = "save" /\ last'.fail = "none" /\ ~last'.panic
        /\ nops' = nops + 1) =>
       /\ ~last'.err
       /\ last'.version = Committed + 1
       /\ tree'.version = Committed + 1
       /\ last'.hash = rootRec(tree').hash]_vars

\* C14: the root hash is a function of the key-to-value mapping alone: two
\* committed versions that hold the same mapping have the same root hash,
\* whatever operations led to them and whatever their version numbers are.
C14_HashOfMapping ==
  \A v, w \in DOMAIN saved :
    (saved[v].ok /\ saved[w].ok /\ saved[v].map = saved[w].map) =>
      saved[v].hash = saved[w].hash

\* The node keys reachable from the root of committed version v.
CommittedIds(v) == IF v \in DOMAIN saved /\ saved[v].ok THEN saved[v].ids ELSE {}

\* C15: when save_version commits version v, the orphan log holds one entry for
\* every node key reachable from the root of version v-1 and no longer
\* reachable from the root of version v, and no other entry.
C15_OrphanClosure ==
  [][(last'.op = "save" /\ ~last'.err /\ ~last'.panic /\ last'.fail = "none"
        /\ nops' = nops + 1) =>
       Len(tree.orphans) =
         Cardinality(CommittedIds(tree.version) \ NodeKeys(tree'))]_vars

\* C16: in every state of the tree, also after the pool has grown and slots
\* handed out before the growth have been put back, the next nodePool.Get
\* returns a fully reset node with a nil hash, and no Get has found a hash set.
C16_GetReturnsReset ==
  /\ tree.fault # "pool"
  /\ tree.fault = NoFault =>
       \E g \in {Get(tree)} :
         /\ g.st.fault = NoFault
         /\ g.st.nodes[g.ptr] = ZeroNode(g.st.nodes[g.ptr].poolId)

RECURSIVE ptrsBelow(_, _, _)
\* The pointers of the in-memory nodes at and below pointer p, down to depth d.
ptrsBelow(S, p, d) ==
  IF p = NilPtr \/ d = 0 THEN {}
  ELSE IF isLeaf(S.nodes[p]) THEN {p}
  ELSE {p} \cup ptrsBelow(S, S.nodes[p].leftNode, d - 1)
           \cup ptrsBelow(S, S.nodes[p].rightNode, d - 1)

\* The pointers of the nodes held in memory by the tree.
RootPtrs(S) == ptrsBelow(S, S.root, MaxKey + 1)

C18_DetachedStored ==
  \A p \in RootPtrs(tree) :
    ~isLeaf(tree.nodes[p]) =>
      /\ tree.nodes[p].leftNode = NilPtr => dbHas(tree.db, tree.nodes[p].leftNodeKey)
      /\ tree.nodes[p].rightNode = NilPtr => dbHas(tree.db, tree.nodes[p].rightNodeKey)

\* C19: after a load_version that returns without error the tree holds the
\* root of that version alone, and the orphan log, the leaves and branches
\* vectors, the working bytes, the working size and the sequence counter are
\* empty or zero.
C19_LoadClears ==
  (last.op = "load" /\ ~last.err /\ ~last.panic) =>
    /\ tree.version = last.version
    /\ RootPtrs(tree) = {tree.root}
    /\ tree.orphans = <<>> /\ tree.leaves = <<>> /\ tree.branches = <<>>
    /\ tree.workingBytes = 0 /\ tree.workingSize = 0
    /\ tree.sequence = 0

\* C20: height() returns 1 on a tree that holds a single key and 2 on a tree
\* whose root is an inner node with two leaf children.
C20_HeightCountsLevels ==
  (last.op = "height" /\ ~last.panic) =>
    /\ Len(LeafKeys(tree)) = 1 => last.ret = 1
    /\ Len(LeafKeys(tree)) = 2 => last.ret = 2

\* C21: node keys are never reused: a record that a call writes to the store
\* goes under a node key that held no other node before, over any sequence of
\* set, save_version and load_version.
C21_NodeKeyUnique ==
  [][\A nk \in DOMAIN tree'.db :
       nk \in DOMAIN tree.db => tree'.db[nk].key = tree.db[nk].key]_vars

\* C22: a record of the store is immutable: no set, remove or save_version
\* changes or deletes a record that the store holds.
C22_StoredImmutable ==
  [][last'.op \in {"set", "remove", "save"} =>
       \A nk \in DOMAIN tree.db :
         nk \in DOMAIN tree'.db /\ tree'.db[nk] = tree.db[nk]]_vars

\* C23: for every node the tree holds in memory, between calls: the hash is
\* nil exactly when the dirty flag is set, exactly when the version of the
\* node key is the working version, the tree's version plus one.
C23_DirtyIffUnhashed ==
  \A p \in RootPtrs(tree) :
    /\ (tree.nodes[p].hash = NilHash) <=> tree.nodes[p].dirty
    /\ tree.nodes[p].dirty <=>
         (NodeKeyVersion(tree.nodes[p].nodeKey) = tree.version + 1)

\* C24: a second touch within a version is a no-op: when the previous call was
\* a set that updated key k, a further set of k changes no node key of the
\* tree, nor the sequence counter, the orphan list or the working size.
C24_SecondTouchNoOp ==
  [][(/\ last.op = "set" /\ last.updated /\ ~last.panic /\ ~last.err
      /\ last'.op = "set" /\ last'.key = last.key /\ last'.val = last.val
      /\ ~last'.panic /\ ~last'.err /\ nops' = nops + 1) =>
       /\ tree'.sequence = tree.sequence
       /\ tree'.orphans = tree.orphans
       /\ tree'.workingSize = tree.workingSize
       /\ \A p \in RootPtrs(tree) : tree'.nodes[p].nodeKey = tree.nodes[p].nodeKey]_vars

RECURSIVE dirtyCountOf(_, _)
\* Tree.dirtyCount: the number of dirty nodes at and below node record n,
\* children that are not in memory being read from the store.
dirtyCountOf(S, n) ==
  IF n = Missing THEN 0
  ELSE IF isLeaf(n) THEN (IF n.dirty THEN 1 ELSE 0)
  ELSE (IF n.dirty THEN 1 ELSE 0)
         + dirtyCountOf(S, leftRec(S, n)) + dirtyCountOf(S, rightRec(S, n))

dirtyCount(S) == dirtyCountOf(S, rootRec(S))

\* C25: between calls the working size is the number of dirty nodes of the
\* tree.
C25_WorkingSizeCountsDirty ==
  tree.fault = NoFault => tree.workingSize = dirtyCount(tree)

\* C26: Commit makes the Append() tree the committed state, starts Append()
\* and Check() as copies of it, and returns the hash of the tree that
\* Committed() returns after the call.
C26_CommitReturnsNewHash ==
  [][(last'.op = "commit" /\ nops' = nops + 1) =>
       /\ StateCommitted(app') = StateAppend(app)
       /\ StateAppend(app') = StateAppend(app)
       /\ StateCheck(app') = StateAppend(app)
       /\ last'.hash = Hash(StateCommitted(app'))]_vars

====
